---- MODULE Spec2Model ----
(***************************************************************************)
(* Model of model/llm_captioning.py: the LLMCaptioning LightningModule.    *)
(*                                                                         *)
(* Four specifications share the module:                                   *)
(*   SpecModule  construction (__init__, tuning strategy) followed by      *)
(*               on_save_checkpoint;                                       *)
(*   SpecLoss    lm_loss applied to a token batch;                         *)
(*   SpecVal     the validation life cycle of WorldSize ranks:             *)
(*               on_validation_epoch_start, validation_step,               *)
(*               on_validation_epoch_end with its all_gather_object.       *)
(*   SpecValFair SpecVal with the ranks' hooks weakly fair.                *)
(* Variables of the groups a specification does not use keep the value     *)
(* given by the Idle* predicates.                                          *)
(***************************************************************************)
EXTENDS FiniteSets, Integers, Sequences, TLC

\* ------------------------------------------------------------------ bounds
NumValues == 2
MaxBatch == 1
SeqLen == 2
WorldSize == 2
MaxOddBatches == 2
MaxBatchSize == 2
MaxEvalEvery == 2
MaxEpoch == 3
NumDataloaders == 3

\* ------------------------------------------------------- program constants
IgnoreIndex == -100

VARIABLES
    \* construction and checkpointing
    llm_tune,          \* args.llm_tune
    obj,               \* "none" before / without an object, "built" after __init__
    init_exc,          \* exception raised by __init__, "none" if none
    requires_grad,     \* parameter name -> requires_grad, over the module's parameters
    delta,             \* self.delta: is a LoRA delta attached, and to which modules
    ckpt_in,           \* the checkpoint dict as handed to on_save_checkpoint
    checkpoint,        \* the same dict object, mutated in place
    ckpt_saved,        \* on_save_checkpoint has returned
    \* lm_loss
    batch,             \* the token batch: input_ids, token_type_ids, attention_mask
    pad_token_id,      \* self.tokenizer.pad_token_id
    llm_call,          \* arguments of the call self.llm_model(...)
    \* validation life cycle
    caption_eval_epoch,
    current_epoch,
    enable_flash,
    flash_imported,    \* did the import of model.opt_flash_attention succeed
    has_q_types,       \* do the target dicts of the dataset carry 'q_types'
    pc,                \* per rank: position in the validation loop
    attn,              \* per rank: attention implementation patched in
    lists_defined,     \* per rank: have the list attributes been created
    saved_dict_list,   \* per rank: self.saved_dict_list
    old_lists,         \* per rank: prediction_list0, target_list0, prediction_list1, target_list1
    n_odd,             \* per rank: odd-index batches delivered by the trainer this epoch
    last_step,         \* per rank: dataloader_idx, return value and log of the latest validation_step
    gather_in,         \* per rank: object handed to all_gather_object, if any
    n_gather,          \* per rank: calls of all_gather_object in this epoch
    result_list,       \* per rank: value returned by gather_dict_results
    exc,               \* per rank: exception that left a hook, "none" if none
    files,             \* per rank: files written, name -> sequence of lines
    logged             \* per rank: metric names logged by on_validation_epoch_end

moduleVars == <<llm_tune, obj, init_exc, requires_grad, delta, ckpt_in, checkpoint, ckpt_saved>>
lossVars == <<batch, pad_token_id, llm_call>>
valVars == <<caption_eval_epoch, current_epoch, enable_flash, flash_imported,
             has_q_types, pc, attn,
             lists_defined, saved_dict_list, old_lists, n_odd, last_step, gather_in,
             n_gather, result_list, exc, files, logged>>
vars == <<moduleVars, lossVars, valVars>>

\* =========================================================================
\* Construction and on_save_checkpoint
\* =========================================================================

\* parameters of the pretrained language model (one per kind of module)
BackboneParams == {"embed_tokens", "q_proj", "fc1"}
\* buffers of the module: in the state dict, but not parameters
Buffers == {"buf"}
\* name of the LoRA parameter attached to a backbone module
LoraParam(m) == IF m = "q_proj" THEN "q_proj.lora" ELSE "fc1.lora"
LoraParams == {LoraParam(m) : m \in {"q_proj", "fc1"}}
\* keys a state dict may hold
Keys == BackboneParams \cup LoraParams \cup Buffers
Values == 1..NumValues
TuneValues == {"freeze", "full", "lora", "mid_lora", "other"}

\* modules modified by the LoRA configuration of each strategy
modified_modules(tune) ==
    IF tune = "lora" THEN {"q_proj"}
    ELSE IF tune = "mid_lora" THEN {"q_proj", "fc1"}
    ELSE {}

\* LoraModel.from_config: attach trainable LoRA parameters to the modified modules
from_config(rg, mods) ==
    [p \in (DOMAIN rg) \cup {LoraParam(m) : m \in mods} |->
        IF p \in DOMAIN rg THEN rg[p] ELSE TRUE]

\* delta.freeze_module(set_state_dict=False): freeze everything but the delta
freeze_module(rg) ==
    [p \in DOMAIN rg |-> IF p \in LoraParams THEN rg[p] ELSE FALSE]

NoDelta == [attached |-> FALSE, modules |-> {}]

apply_tuning_mut(tune, rg) ==
    IF tune = "freeze" THEN
        [exc |-> "none", requires_grad |-> [p \in DOMAIN rg |-> FALSE], delta |-> NoDelta]
    ELSE IF tune = "full" THEN
        [exc |-> "none", requires_grad |-> [p \in DOMAIN rg |-> TRUE], delta |-> NoDelta]
    ELSE IF tune \in {"lora", "mid_lora"} THEN
        [exc |-> "none",
         requires_grad |-> freeze_module(from_config(rg, modified_modules(tune))),
         delta |-> [attached |-> TRUE, modules |-> modified_modules(tune)]]
    ELSE
        [exc |-> "none", requires_grad |-> rg, delta |-> NoDelta]

\* the if/elif chain on self.llm_tune
apply_tuning(tune, rg) ==
    IF tune = "freeze" THEN
        [exc |-> "none", requires_grad |-> [p \in DOMAIN rg |-> FALSE], delta |-> NoDelta]
    ELSE IF tune = "full" THEN
        [exc |-> "none", requires_grad |-> [p \in DOMAIN rg |-> TRUE], delta |-> NoDelta]
    ELSE IF tune = "lora" THEN
        [exc |-> "none",
         requires_grad |-> freeze_module(from_config(rg, modified_modules("lora"))),
         delta |-> [attached |-> TRUE, modules |-> modified_modules("lora")]]
    ELSE IF tune = "mid_lora" THEN
        [exc |-> "none",
         requires_grad |-> freeze_module(from_config(rg, modified_modules("mid_lora"))),
         delta |-> [attached |-> TRUE, modules |-> modified_modules("mid_lora")]]
    ELSE
        [exc |-> "NotImplementedError", requires_grad |-> rg, delta |-> NoDelta]

\* LLMCaptioning.__init__
Construct ==
    /\ obj = "none"
    /\ init_exc = "none"
    /\ LET r == apply_tuning(llm_tune, requires_grad) IN
         /\ init_exc' = r.exc
         /\ obj' = IF r.exc = "none" THEN "built" ELSE "none"
         /\ requires_grad' = r.requires_grad
         /\ delta' = r.delta
    /\ UNCHANGED <<llm_tune, ckpt_in, checkpoint, ckpt_saved>>
    /\ UNCHANGED <<lossVars, valVars>>

\* nn.Module.get_parameter: AttributeError unless the key names a parameter
get_parameter(key) ==
    IF key \in DOMAIN requires_grad
    THEN [exc |-> "none", requires_grad |-> requires_grad[key]]
    ELSE [exc |-> "AttributeError", requires_grad |-> FALSE]

to_be_removed_mut(state_dict) ==
    {key \in DOMAIN state_dict :
        LET p == get_parameter(key) IN
        IF p.exc = "none" THEN ~p.requires_grad ELSE FALSE}

\* the first loop of on_save_checkpoint
to_be_removed(state_dict) ==
    {key \in DOMAIN state_dict :
        LET p == get_parameter(key) IN
        IF p.exc = "none" THEN ~p.requires_grad ELSE TRUE}

\* dict.pop of every key of a set
pop_all(state_dict, keys) ==
    [k \in (DOMAIN state_dict) \ keys |-> state_dict[k]]

\* LLMCaptioning.on_save_checkpoint
on_save_checkpoint ==
    /\ obj = "built"
    /\ ~ckpt_saved
    /\ checkpoint' = [checkpoint EXCEPT
          !.state_dict = pop_all(checkpoint.state_dict, to_be_removed(checkpoint.state_dict))]
    /\ ckpt_saved' = TRUE
    /\ UNCHANGED <<llm_tune, obj, init_exc, requires_grad, delta, ckpt_in>>
    /\ UNCHANGED <<lossVars, valVars>>

StateDicts == UNION {[S -> Values] : S \in SUBSET Keys}

InitModuleVars ==
    /\ llm_tune \in TuneValues
    /\ obj = "none"
    /\ init_exc = "none"
    /\ requires_grad \in [BackboneParams -> BOOLEAN]
    /\ delta = NoDelta
    /\ ckpt_in \in [state_dict : StateDicts, optimizer_states : Values]
    /\ checkpoint = ckpt_in
    /\ ckpt_saved = FALSE

IdleModuleVars ==
    /\ llm_tune = "freeze"
    /\ obj = "built"
    /\ init_exc = "none"
    /\ requires_grad = [p \in BackboneParams |-> FALSE]
    /\ delta = NoDelta
    /\ ckpt_in = [state_dict |-> <<>>, optimizer_states |-> 1]
    /\ checkpoint = ckpt_in
    /\ ckpt_saved = TRUE

\* =========================================================================
\* lm_loss
\* =========================================================================

\* token ids of the vocabulary; one of them is the pad token
Tokens == {0, 1, 2}
\* a token batch as the tokenizer pads it: the attention mask is 0 exactly on pad tokens
tokenized(ids, tt, pad) ==
    [input_ids |-> ids, token_type_ids |-> tt,
     attention_mask |-> [r \in DOMAIN ids |-> [i \in 1..SeqLen |->
                            IF ids[r][i] = pad THEN 0 ELSE 1]]]

\* Tensor.masked_fill(mask, value)
masked_fill(t, mask, value) ==
    [b \in DOMAIN t |-> [i \in DOMAIN t[b] |-> IF mask[b][i] THEN value ELSE t[b][i]]]

\* elementwise tensor == scalar
tensor_eq(t, v) ==
    [b \in DOMAIN t |-> [i \in DOMAIN t[b] |-> t[b][i] = v]]

lm_loss_targets_mut(bt) ==
    masked_fill(bt.input_ids, tensor_eq(bt.input_ids, pad_token_id), IgnoreIndex)

\* the two masked_fill lines of lm_loss
lm_loss_targets(bt) ==
    LET targets == masked_fill(bt.input_ids, tensor_eq(bt.input_ids, pad_token_id), IgnoreIndex)
    IN masked_fill(targets, tensor_eq(bt.token_type_ids, 0), IgnoreIndex)

NoCall == [called |-> FALSE, input_ids |-> <<>>, attention_mask |-> <<>>, labels |-> <<>>]

\* LLMCaptioning.lm_loss
lm_loss ==
    /\ ~llm_call.called
    /\ llm_call' = [called |-> TRUE,
                    input_ids |-> batch.input_ids,
                    attention_mask |-> batch.attention_mask,
                    labels |-> lm_loss_targets(batch)]
    /\ UNCHANGED <<batch, pad_token_id>>
    /\ UNCHANGED <<moduleVars, valVars>>

InitLossVars ==
    /\ pad_token_id \in Tokens
    /\ \E b \in 1..MaxBatch :
         \E ids \in [1..b -> [1..SeqLen -> Tokens]], tt \in [1..b -> [1..SeqLen -> {0, 1}]] :
            batch = tokenized(ids, tt, pad_token_id)
    /\ llm_call = NoCall

IdleLossVars ==
    /\ batch = [input_ids |-> <<>>, token_type_ids |-> <<>>, attention_mask |-> <<>>]
    /\ pad_token_id = 0
    /\ llm_call = NoCall

\* =========================================================================
\* Validation life cycle
\* =========================================================================

Ranks == 0..(WorldSize - 1)
DataloaderIdx == 0..(NumDataloaders - 1)

\* ---- the evaluation dataset, sharded over the ranks ----------------------
\* number of samples in the k-th generation batch of rank r
BatchSizeOf(r, k) == 1 + ((r + k) % MaxBatchSize)
\* the target dict of the k-th generation batch of rank r: every value is a
\* list with one entry per sample
target_dict(r, k) ==
    IF has_q_types
    THEN [targets |-> [j \in 1..BatchSizeOf(r, k) |-> <<"target", r, k, j>>],
          q_types |-> [j \in 1..BatchSizeOf(r, k) |-> <<"q_type", r, k, j>>]]
    ELSE [targets |-> [j \in 1..BatchSizeOf(r, k) |-> <<"target", r, k, j>>]]

\* LLMCaptioning.generate: one decoded text per input row (num_captions = 1)
generate(r, k) ==
    [j \in 1..BatchSizeOf(r, k) |-> <<"prediction", r, k, j>>]

\* d[key] = value on a dict
dict_set(d, key, value) ==
    [k \in (DOMAIN d) \cup {key} |-> IF k = key THEN value ELSE d[k]]

\* Python values that may be a dict or a set
PyDict(f) == [kind |-> "dict", val |-> f]
PySet(s) == [kind |-> "set", val |-> s]

EmptyOldLists ==
    [prediction_list0 |-> <<>>, target_list0 |-> <<>>,
     prediction_list1 |-> <<>>, target_list1 |-> <<>>]
NoStep == [idx |-> -1, ret |-> "none", log |-> <<>>]
NoGather == [posted |-> FALSE, obj |-> <<>>]
NoFiles == <<>>

\* ---- on_validation_epoch_start ------------------------------------------
epoch_start_lists_mut(r) ==
    [defined |-> lists_defined[r], saved |-> saved_dict_list[r], old |-> old_lists[r]]

\* the five list attributes as on_validation_epoch_start leaves them
epoch_start_lists(r) ==
    [defined |-> TRUE, saved |-> <<>>, old |-> EmptyOldLists]

\* model.opt_flash_attention.replace_opt_attn_with_original_attn: the
\* attention implementation in effect after the call
replace_opt_attn_with_original_attn(impl) == "original"

\* model.opt_flash_attention.replace_opt_attn_with_flash_attn
replace_opt_attn_with_flash_attn(impl) == "flash"

\* the import at the top of the file is allowed to fail (ModuleNotFoundError
\* is swallowed): the two functions are then undefined names
flash_call_raises == enable_flash /\ ~flash_imported

\* the attention implementation of rank r as on_validation_epoch_start leaves it
attn_after_epoch_start(r) ==
    IF enable_flash THEN replace_opt_attn_with_original_attn(attn[r]) ELSE attn[r]

\* LLMCaptioning.on_validation_epoch_start on rank r
on_validation_epoch_start(r) ==
    /\ pc[r] = "idle"
    /\ IF flash_call_raises
       THEN /\ exc' = [exc EXCEPT ![r] = "NameError"]
            /\ pc' = [pc EXCEPT ![r] = "raised"]
            /\ UNCHANGED <<attn, lists_defined, saved_dict_list, old_lists>>
       ELSE /\ attn' = [attn EXCEPT ![r] = attn_after_epoch_start(r)]
            /\ LET l == epoch_start_lists(r) IN
                 /\ lists_defined' = [lists_defined EXCEPT ![r] = l.defined]
                 /\ saved_dict_list' = [saved_dict_list EXCEPT ![r] = l.saved]
                 /\ old_lists' = [old_lists EXCEPT ![r] = l.old]
            /\ pc' = [pc EXCEPT ![r] = "val"]
            /\ UNCHANGED exc
    /\ UNCHANGED <<caption_eval_epoch, current_epoch, enable_flash, flash_imported, has_q_types, n_odd,
                   last_step, gather_in, n_gather, result_list, files, logged>>
    /\ UNCHANGED <<moduleVars, lossVars>>

\* ---- validation_step ------------------------------------------------------
\* the gate of validation_step: generation is skipped in this epoch
step_skips_eval == (current_epoch + 1) % caption_eval_epoch # 0

validation_step_result_mut(r, idx) ==
    IF (idx % 2) = 0 THEN
        [exc |-> "none", ret |-> "loss", log |-> <<"dataloader", idx, "/val loss">>,
         saved |-> Append(saved_dict_list[r], [targets |-> <<>>, predictions |-> <<>>])]
    ELSE IF step_skips_eval THEN
        [exc |-> "none", ret |-> "None", log |-> <<>>, saved |-> saved_dict_list[r]]
    ELSE
        [exc |-> "none", ret |-> "None", log |-> <<>>,
         saved |-> Append(saved_dict_list[r],
                          dict_set(target_dict(r, n_odd[r] + 1), "predictions",
                                   generate(r, n_odd[r] + 1)))]

\* validation_step on rank r for a batch of dataloader idx: the exception it
\* raises, its return value, the metric it logs and self.saved_dict_list after it
validation_step_result(r, idx) ==
    IF (idx % 2) = 0 THEN
        [exc |-> "none", ret |-> "loss", log |-> <<"dataloader", idx, "/val loss">>,
         saved |-> saved_dict_list[r]]
    ELSE IF step_skips_eval THEN
        [exc |-> "none", ret |-> "None", log |-> <<>>, saved |-> saved_dict_list[r]]
    ELSE IF ~lists_defined[r] THEN
        [exc |-> "AttributeError", ret |-> "none", log |-> <<>>, saved |-> saved_dict_list[r]]
    ELSE
        [exc |-> "none", ret |-> "None", log |-> <<>>,
         saved |-> Append(saved_dict_list[r],
                          dict_set(target_dict(r, n_odd[r] + 1), "predictions",
                                   generate(r, n_odd[r] + 1)))]

\* LLMCaptioning.validation_step on rank r; the trainer delivers a batch of
\* any dataloader, at most MaxOddBatches of them from odd dataloaders
validation_step(r) ==
    /\ pc[r] = "val"
    /\ \E idx \in DataloaderIdx :
         /\ (idx % 2) = 1 => n_odd[r] < MaxOddBatches
         /\ LET s == validation_step_result(r, idx) IN
              /\ saved_dict_list' = [saved_dict_list EXCEPT ![r] = s.saved]
              /\ last_step' = [last_step EXCEPT ![r] = [idx |-> idx, ret |-> s.ret, log |-> s.log]]
              /\ exc' = [exc EXCEPT ![r] = s.exc]
              /\ pc' = IF s.exc = "none" THEN pc ELSE [pc EXCEPT ![r] = "raised"]
         /\ n_odd' = IF (idx % 2) = 1 THEN [n_odd EXCEPT ![r] = n_odd[r] + 1] ELSE n_odd
    /\ UNCHANGED <<caption_eval_epoch, current_epoch, enable_flash, flash_imported, has_q_types, attn,
                   lists_defined, old_lists, gather_in, n_gather, result_list, files, logged>>
    /\ UNCHANGED <<moduleVars, lossVars>>

\* ---- gather_dict_results --------------------------------------------------
RECURSIVE Flatten(_)
\* [i for ii in lists for i in ii]
Flatten(lists) ==
    IF lists = <<>> THEN <<>> ELSE Head(lists) \o Flatten(Tail(lists))

\* gather_dict_results after all_gather_object has filled list_of_dict_list
gather_dict_results(list_of_dict_list) ==
    LET dict_list == Flatten(list_of_dict_list) IN
    IF dict_list = <<>> THEN [exc |-> "IndexError", value |-> <<>>]
    ELSE
      LET keys == DOMAIN dict_list[1] IN
      IF \E i \in 1..Len(dict_list) : ~(keys \subseteq DOMAIN dict_list[i])
      THEN [exc |-> "KeyError", value |-> <<>>]
      ELSE
        LET gathered_dict ==
              [k \in keys |-> Flatten([i \in 1..Len(dict_list) |-> dict_list[i][k]])]
        IN
        IF "predictions" \notin keys THEN [exc |-> "KeyError", value |-> <<>>]
        ELSE IF \E k \in keys : Len(gathered_dict[k]) < Len(gathered_dict["predictions"])
        THEN [exc |-> "IndexError", value |-> <<>>]
        ELSE [exc |-> "none",
              value |-> [i \in 1..Len(gathered_dict["predictions"]) |->
                            PySet({gathered_dict[k][i] : k \in keys})]]

\* ---- save_results ---------------------------------------------------------
\* the file name save_results builds from log_prefix
predictions_file(log_prefix) ==
    IF log_prefix # "" THEN <<log_prefix, "_predictions.txt">> ELSE <<"predictions.txt">>

\* open(name, 'w'): the file exists and is empty
open_w(fs, name) ==
    [n \in (DOMAIN fs) \cup {name} |-> IF n = name THEN <<>> ELSE fs[n]]

\* save_results(dict_list, log_prefix) on a file system fs: the exception it
\* raises and the file system after it
save_results(dict_list, log_prefix, fs) ==
    IF dict_list = <<>> THEN
        [exc |-> "IndexError", files |-> fs]         \* dict_list[0]
    ELSE IF dict_list[1].kind # "dict" THEN
        [exc |-> "AttributeError", files |-> fs]     \* a set has no keys()
    ELSE
        \* the file is opened, then dict_list['predictions'] indexes a list by a string
        [exc |-> "TypeError", files |-> open_w(fs, predictions_file(log_prefix))]

\* ---- on_validation_epoch_end ----------------------------------------------
\* the gate of on_validation_epoch_end: nothing is gathered in this epoch
end_skips_eval == (current_epoch + 1) % caption_eval_epoch # 0

end_returns_early_mut(r) == end_skips_eval \/ saved_dict_list[r] = <<>>

\* does on_validation_epoch_end return before the gather on rank r: every
\* rank evaluates the same gate on the epoch counter
end_returns_early(r) == end_skips_eval

is_rank_zero_mut(r) == TRUE

\* self.global_rank == 0
is_rank_zero(r) == r = 0

MetricNames ==
    {<<"dataset0", m>> : m \in {"/acc", "/bleu2", "/bleu4", "/rouge_1", "/rouge_2",
                                 "/rouge_l", "/meteor_score"}}

\* the body of `if self.global_rank == 0:` on the gathered records
rank_zero_branch(records, fs) ==
    LET sr == save_results(records, "dataset0", fs) IN
    IF sr.exc # "none" THEN [exc |-> sr.exc, files |-> sr.files, logged |-> {}]
    ELSE IF \E i \in 1..Len(records) : records[i].kind # "dict"
    THEN [exc |-> "TypeError", files |-> sr.files, logged |-> {}]    \* i['predictions'] on a set
    ELSE IF \E i \in 1..Len(records) : "targets" \notin DOMAIN records[i].val
    THEN [exc |-> "KeyError", files |-> sr.files, logged |-> {}]
    ELSE IF "q_types" \in DOMAIN records[1].val
    THEN [exc |-> "none", files |-> sr.files, logged |-> {}]
    ELSE [exc |-> "AttributeError", files |-> sr.files, logged |-> {}]  \* self.blip2 is never set

attn_after_epoch_end_mut(r) ==
    IF enable_flash /\ ~end_skips_eval
    THEN replace_opt_attn_with_flash_attn(attn[r]) ELSE attn[r]

\* the attention implementation of rank r as on_validation_epoch_end leaves
\* it: the switch comes before the gate
attn_after_epoch_end(r) ==
    IF enable_flash THEN replace_opt_attn_with_flash_attn(attn[r]) ELSE attn[r]

\* on_validation_epoch_end on rank r up to its call of all_gather_object
on_validation_epoch_end_enter(r) ==
    /\ pc[r] = "val"
    /\ IF flash_call_raises
       THEN /\ exc' = [exc EXCEPT ![r] = "NameError"]
            /\ pc' = [pc EXCEPT ![r] = "raised"]
            /\ UNCHANGED <<attn, gather_in, n_gather>>
       ELSE /\ attn' = [attn EXCEPT ![r] = attn_after_epoch_end(r)]
            /\ UNCHANGED exc
            /\ IF end_returns_early(r)
               THEN /\ pc' = [pc EXCEPT ![r] = "done"]
                    /\ UNCHANGED <<gather_in, n_gather>>
               ELSE /\ pc' = [pc EXCEPT ![r] = "gather"]
                    /\ gather_in' = [gather_in EXCEPT ![r] =
                                        [posted |-> TRUE, obj |-> saved_dict_list[r]]]
                    /\ n_gather' = [n_gather EXCEPT ![r] = n_gather[r] + 1]
    /\ last_step' = [last_step EXCEPT ![r] = NoStep]   \* the step's return value is gone
    /\ UNCHANGED <<caption_eval_epoch, current_epoch, enable_flash, flash_imported, has_q_types,
                   lists_defined, saved_dict_list, old_lists, n_odd,
                   result_list, files, logged>>
    /\ UNCHANGED <<moduleVars, lossVars>>

\* on_validation_epoch_end on rank r from the return of all_gather_object,
\* which returns once every rank has called it
on_validation_epoch_end_finish(r) ==
    /\ pc[r] = "gather"
    /\ \A q \in Ranks : gather_in[q].posted
    /\ LET g == gather_dict_results([i \in 1..WorldSize |-> gather_in[i - 1].obj]) IN
         IF g.exc # "none"
         THEN /\ exc' = [exc EXCEPT ![r] = g.exc]
              /\ pc' = [pc EXCEPT ![r] = "raised"]
              /\ UNCHANGED <<result_list, saved_dict_list, files, logged>>
         ELSE /\ result_list' = [result_list EXCEPT ![r] = g.value]
              /\ saved_dict_list' = [saved_dict_list EXCEPT ![r] = <<>>]
              /\ IF is_rank_zero(r)
                 THEN LET z == rank_zero_branch(g.value, files[r]) IN
                        /\ exc' = [exc EXCEPT ![r] = z.exc]
                        /\ files' = [files EXCEPT ![r] = z.files]
                        /\ logged' = [logged EXCEPT ![r] = logged[r] \cup z.logged]
                        /\ pc' = [pc EXCEPT ![r] = IF z.exc = "none" THEN "done" ELSE "raised"]
                 ELSE /\ pc' = [pc EXCEPT ![r] = "done"]
                      /\ UNCHANGED <<exc, files, logged>>
    /\ UNCHANGED <<caption_eval_epoch, current_epoch, enable_flash, flash_imported, has_q_types, attn,
                   lists_defined, old_lists, n_odd, last_step, gather_in, n_gather>>
    /\ UNCHANGED <<moduleVars, lossVars>>

\* the trainer moves to the next epoch once every rank has left validation
next_epoch ==
    /\ \A r \in Ranks : pc[r] = "done"
    /\ current_epoch < MaxEpoch
    /\ current_epoch' = current_epoch + 1
    /\ pc' = [r \in Ranks |-> "idle"]
    /\ n_odd' = [r \in Ranks |-> 0]
    /\ gather_in' = [r \in Ranks |-> NoGather]
    /\ n_gather' = [r \in Ranks |-> 0]
    /\ result_list' = [r \in Ranks |-> <<>>]
    /\ UNCHANGED <<caption_eval_epoch, enable_flash, flash_imported, has_q_types, attn, lists_defined,
                   saved_dict_list, old_lists, last_step, exc, files, logged>>
    /\ UNCHANGED <<moduleVars, lossVars>>

InitValVars ==
    /\ caption_eval_epoch \in 1..MaxEvalEvery
    /\ current_epoch = 0
    /\ enable_flash \in BOOLEAN
    \* the outcome of the import only matters when the functions are called
    /\ flash_imported \in (IF enable_flash THEN BOOLEAN ELSE {TRUE})
    /\ has_q_types \in BOOLEAN
    /\ pc = [r \in Ranks |-> "idle"]
    /\ attn = [r \in Ranks |-> IF enable_flash /\ flash_imported THEN "flash" ELSE "original"]
    /\ lists_defined = [r \in Ranks |-> FALSE]
    /\ saved_dict_list = [r \in Ranks |-> <<>>]
    /\ old_lists = [r \in Ranks |-> EmptyOldLists]
    /\ n_odd = [r \in Ranks |-> 0]
    /\ last_step = [r \in Ranks |-> NoStep]
    /\ gather_in = [r \in Ranks |-> NoGather]
    /\ n_gather = [r \in Ranks |-> 0]
    /\ result_list = [r \in Ranks |-> <<>>]
    /\ exc = [r \in Ranks |-> "none"]
    /\ files = [r \in Ranks |-> NoFiles]
    /\ logged = [r \in Ranks |-> {}]

IdleValVars ==
    /\ caption_eval_epoch = 1
    /\ current_epoch = 0
    /\ enable_flash = FALSE
    /\ flash_imported = TRUE
    /\ has_q_types = FALSE
    /\ pc = [r \in Ranks |-> "idle"]
    /\ attn = [r \in Ranks |-> "original"]
    /\ lists_defined = [r \in Ranks |-> FALSE]
    /\ saved_dict_list = [r \in Ranks |-> <<>>]
    /\ old_lists = [r \in Ranks |-> EmptyOldLists]
    /\ n_odd = [r \in Ranks |-> 0]
    /\ last_step = [r \in Ranks |-> NoStep]
    /\ gather_in = [r \in Ranks |-> NoGather]
    /\ n_gather = [r \in Ranks |-> 0]
    /\ result_list = [r \in Ranks |-> <<>>]
    /\ exc = [r \in Ranks |-> "none"]
    /\ files = [r \in Ranks |-> NoFiles]
    /\ logged = [r \in Ranks |-> {}]

\* =========================================================================
\* Specifications
\* =========================================================================

InitModule == InitModuleVars /\ IdleLossVars /\ IdleValVars
NextModule ==
    \/ Construct
    \/ on_save_checkpoint
SpecModule == InitModule /\ [][NextModule]_vars

InitLoss == IdleModuleVars /\ InitLossVars /\ IdleValVars
NextLoss == lm_loss
SpecLoss == InitLoss /\ [][NextLoss]_vars

InitVal == IdleModuleVars /\ IdleLossVars /\ InitValVars
NextVal ==
    \/ \E r \in Ranks : on_validation_epoch_start(r)
    \/ \E r \in Ranks : validation_step(r)
    \/ \E r \in Ranks : on_validation_epoch_end_enter(r)
    \/ \E r \in Ranks : on_validation_epoch_end_finish(r)
    \/ next_epoch
SpecVal == InitVal /\ [][NextVal]_vars

\* a hook of some rank runs, or all_gather_object returns on some rank
hook_step ==
    \E r \in Ranks :
        \/ on_validation_epoch_start(r)
        \/ on_validation_epoch_end_enter(r)
        \/ on_validation_epoch_end_finish(r)

\* the ranks are running processes: while a hook is due on some rank, or a
\* rank can return from all_gather_object, one of them does so
FairVal == WF_vars(hook_step)
SpecValFair == InitVal /\ [][NextVal]_vars /\ FairVal

\* =========================================================================
\* Properties
\* =========================================================================

KnownTunes == {"freeze", "full", "lora", "mid_lora"}

\* C1: after on_save_checkpoint the keys of checkpoint['state_dict'] are exactly
\* the original keys that name a parameter with requires_grad true (keys of
\* frozen parameters and keys that name no parameter are gone), the kept
\* values are unchanged, and the other checkpoint entries are unchanged.
C1_PrunedToTrainable ==
    ckpt_saved =>
        /\ DOMAIN checkpoint.state_dict =
              {k \in DOMAIN ckpt_in.state_dict :
                  k \in DOMAIN requires_grad /\ requires_grad[k]}
        /\ \A k \in DOMAIN checkpoint.state_dict :
              checkpoint.state_dict[k] = ckpt_in.state_dict[k]
        /\ checkpoint.optimizer_states = ckpt_in.optimizer_states

\* a checkpoint was pruned that held a trainable key (kept), a frozen
\* parameter's key and a buffer's key (both removed)
C1_Witness ==
    /\ ckpt_saved
    /\ llm_tune = "lora"
    /\ {"q_proj", "q_proj.lora", "buf"} \subseteq DOMAIN ckpt_in.state_dict
    /\ DOMAIN checkpoint.state_dict = {"q_proj.lora"}
    /\ ckpt_in.state_dict["q_proj.lora"] = 2

\* C2: construction applies the one strategy llm_tune selects: 'freeze' leaves
\* every parameter frozen, 'full' every parameter trainable, 'lora' and
\* 'mid_lora' attach a LoRA delta and freeze the backbone; any other value
\* raises NotImplementedError and produces no object.
C2_TuningStrategy ==
    /\ obj = "built" =>
          /\ llm_tune \in KnownTunes
          /\ init_exc = "none"
          /\ llm_tune = "freeze" =>
                /\ \A p \in DOMAIN requires_grad : ~requires_grad[p]
                /\ ~delta.attached
          /\ llm_tune = "full" =>
                /\ \A p \in DOMAIN requires_grad : requires_grad[p]
                /\ ~delta.attached
          /\ llm_tune \in {"lora", "mid_lora"} =>
                /\ delta.attached
                /\ delta.modules # {}
                /\ \A m \in delta.modules : LoraParam(m) \in DOMAIN requires_grad
                /\ \A p \in BackboneParams : ~requires_grad[p]
    /\ init_exc # "none" =>
          /\ init_exc = "NotImplementedError"
          /\ llm_tune \notin KnownTunes
          /\ obj = "none"
    /\ llm_tune \notin KnownTunes => obj = "none"

\* construction was attempted with an unknown llm_tune and raised
C2_Witness ==
    /\ llm_tune = "other"
    /\ init_exc = "NotImplementedError"
    /\ obj = "none"

\* the records of rank r's generation batches of this epoch, in append order
EpochRecords(r) ==
    [k \in 1..n_odd[r] |->
        IF has_q_types
        THEN [targets |-> [j \in 1..BatchSizeOf(r, k) |-> <<"target", r, k, j>>],
              q_types |-> [j \in 1..BatchSizeOf(r, k) |-> <<"q_type", r, k, j>>],
              predictions |-> [j \in 1..BatchSizeOf(r, k) |-> <<"prediction", r, k, j>>]]
        ELSE [targets |-> [j \in 1..BatchSizeOf(r, k) |-> <<"target", r, k, j>>],
              predictions |-> [j \in 1..BatchSizeOf(r, k) |-> <<"prediction", r, k, j>>]]]

IsEvalEpoch == (current_epoch + 1) % caption_eval_epoch = 0
\* rank r has left on_validation_epoch_end, normally or by an exception, after the gather
LeftEpochEnd(r) == pc[r] \in {"done", "raised"} /\ gather_in[r].posted

\* C3: on an evaluation epoch only rank 0 writes the predictions file and logs
\* evaluation metrics: every other rank takes part in the gather, writes no
\* file, logs no metric and never runs the rank-0 branch.
C3_OnlyRankZeroWrites ==
    \A r \in Ranks \ {0} :
        /\ files[r] = NoFiles
        /\ logged[r] = {}
        /\ exc[r] \notin {"none", "NameError"} =>
              /\ exc[r] = "IndexError"
              /\ \A q \in Ranks : gather_in[q].posted /\ gather_in[q].obj = <<>>
        /\ (pc[r] = "done" /\ IsEvalEpoch) => gather_in[r].posted

\* a rank other than 0 has finished on_validation_epoch_end on an evaluation
\* epoch with records gathered
C3_Witness ==
    \E r \in Ranks \ {0} :
        /\ pc[r] = "done"
        /\ IsEvalEpoch
        /\ gather_in[r].posted
        /\ Len(result_list[r]) > 0
        /\ files[r] = NoFiles

\* the samples of all ranks in rank order, then append order, then batch order
ExpectedSamples ==
    Flatten([i \in 1..WorldSize |->
        Flatten([k \in 1..n_odd[i - 1] |->
            [j \in 1..BatchSizeOf(i - 1, k) |-> <<i - 1, k, j>>]])])

\* the record of one sample as a dict over the keys of the batch dicts
ExpectedRecord(s) ==
    IF has_q_types
    THEN [targets |-> <<"target", s[1], s[2], s[3]>>,
          q_types |-> <<"q_type", s[1], s[2], s[3]>>,
          predictions |-> <<"prediction", s[1], s[2], s[3]>>]
    ELSE [targets |-> <<"target", s[1], s[2], s[3]>>,
          predictions |-> <<"prediction", s[1], s[2], s[3]>>]

\* C4: gather_dict_results returns on every rank one dict per sample, in rank
\* order then append order, the i-th dict mapping every key of the batch dicts
\* to the i-th element of that key's flattened list.
C4_GatherReturnsDictPerSample ==
    \A r \in Ranks :
        (LeftEpochEnd(r) /\ exc[r] # "IndexError") =>
            /\ Len(result_list[r]) = Len(ExpectedSamples)
            /\ \A i \in 1..Len(result_list[r]) :
                  /\ result_list[r][i].kind = "dict"
                  /\ result_list[r][i].val = ExpectedRecord(ExpectedSamples[i])

\* json.dumps of a dict: its items in insertion order
json_line(d) ==
    LET order == <<"targets", "q_types", "predictions">>
        present == SelectSeq(order, LAMBDA k : k \in DOMAIN d)
    IN [i \in 1..Len(present) |-> <<present[i], d[present[i]]>>]

\* C5: save_results writes to dataset0_predictions.txt one JSON line per
\* gathered record, in record order, holding every key of the record.
C5_SaveResultsWritesJsonLines ==
    (LeftEpochEnd(0) /\ Len(result_list[0]) > 0) =>
        /\ <<"dataset0", "_predictions.txt">> \in DOMAIN files[0]
        /\ Len(files[0][<<"dataset0", "_predictions.txt">>]) = Len(ExpectedSamples)
        /\ \A i \in 1..Len(ExpectedSamples) :
              files[0][<<"dataset0", "_predictions.txt">>][i]
                 = json_line(ExpectedRecord(ExpectedSamples[i]))

\* C6: on an evaluation epoch whose records carry no 'q_types', rank 0 runs
\* on_validation_epoch_end to completion and logs the seven metrics under
\* 'dataset0/'; with 'q_types' no metric is logged.
C6_MetricsLogged ==
    (LeftEpochEnd(0) /\ Len(result_list[0]) > 0) =>
        IF has_q_types
        THEN logged[0] = {}
        ELSE /\ pc[0] = "done"
             /\ exc[0] = "none"
             /\ logged[0] = MetricNames

\* C7: in an epoch where (current_epoch+1) % caption_eval_epoch # 0 nothing is
\* generated or appended, nothing is gathered, no file is written and no
\* metric is logged; in an epoch where the remainder is 0 all of these happen.
C7_EvalGated ==
    \A r \in Ranks :
        /\ ~IsEvalEpoch =>
              /\ saved_dict_list[r] = <<>>
              /\ ~gather_in[r].posted
              /\ result_list[r] = <<>>
              /\ files[r] = NoFiles
              /\ logged[r] = {}
        /\ (IsEvalEpoch /\ pc[r] = "val") => Len(saved_dict_list[r]) = n_odd[r]
        /\ (IsEvalEpoch /\ pc[r] \in {"done", "raised"}) => gather_in[r].posted
        /\ (IsEvalEpoch /\ r = 0 /\ LeftEpochEnd(r) /\ Len(result_list[r]) > 0) =>
              /\ <<"dataset0", "_predictions.txt">> \in DOMAIN files[r]
              /\ ~has_q_types => logged[r] = MetricNames

\* C8: validation_step returns the loss and leaves saved_dict_list alone on an
\* even dataloader index; on an odd index of an evaluation epoch it returns
\* nothing and appends one record, the batch's target dict extended with
\* 'predictions', so the list is as long as the number of odd-index batches.
C8_StepDispatch ==
    \A r \in Ranks :
        /\ last_step[r].idx # -1 =>
              /\ (last_step[r].idx % 2) = 0 =>
                    /\ last_step[r].ret = "loss"
                    /\ last_step[r].log = <<"dataloader", last_step[r].idx, "/val loss">>
              /\ (last_step[r].idx % 2) = 1 =>
                    /\ last_step[r].ret = "None"
                    /\ last_step[r].log = <<>>
        /\ (pc[r] = "val" /\ ~IsEvalEpoch) => saved_dict_list[r] = <<>>
        /\ (pc[r] = "val" /\ IsEvalEpoch) =>
              /\ Len(saved_dict_list[r]) = n_odd[r]
              /\ \A k \in 1..Len(saved_dict_list[r]) :
                    /\ DOMAIN saved_dict_list[r][k] = (DOMAIN target_dict(r, k)) \cup {"predictions"}
                    /\ \A key \in DOMAIN target_dict(r, k) :
                          saved_dict_list[r][k][key] = target_dict(r, k)[key]
                    /\ Len(saved_dict_list[r][k]["predictions"]) = BatchSizeOf(r, k)
                    /\ \A j \in 1..BatchSizeOf(r, k) :
                          saved_dict_list[r][k]["predictions"][j] = <<"prediction", r, k, j>>

\* on an evaluation epoch a rank has processed two odd-index batches and then
\* an even-index batch
C8_Witness ==
    \E r \in Ranks :
        /\ pc[r] = "val"
        /\ IsEvalEpoch
        /\ n_odd[r] = 2
        /\ Len(saved_dict_list[r]) = 2
        /\ last_step[r].idx = 2
        /\ last_step[r].ret = "loss"

\* C9: lm_loss labels a position -100 if its token is the pad token or its
\* token_type_ids is 0, and with the input token id otherwise; input_ids and
\* attention_mask reach the model unmodified.
C9_Labels ==
    llm_call.called =>
        /\ llm_call.input_ids = batch.input_ids
        /\ llm_call.attention_mask = batch.attention_mask
        /\ DOMAIN llm_call.labels = DOMAIN batch.input_ids
        /\ \A b \in DOMAIN batch.input_ids :
              /\ DOMAIN llm_call.labels[b] = DOMAIN batch.input_ids[b]
              /\ \A i \in DOMAIN batch.input_ids[b] :
                    llm_call.labels[b][i] =
                        IF batch.input_ids[b][i] = pad_token_id \/ batch.token_type_ids[b][i] = 0
                        THEN -100
                        ELSE batch.input_ids[b][i]

\* lm_loss ran on a row with a prompt token (type 0) followed by a kept text token
C9_Witness ==
    /\ llm_call.called
    /\ pad_token_id = 0
    /\ batch.input_ids[1] = <<1, 2>>
    /\ batch.token_type_ids[1] = <<0, 1>>
    /\ llm_call.labels[1] = <<-100, 2>>

\* C10: the records a rank hands to the gather are exactly those appended by
\* its validation_step calls since the latest on_validation_epoch_start: that
\* hook leaves the list attributes defined and empty, and
\* on_validation_epoch_end leaves saved_dict_list empty after the gather.
C10_NoLeak ==
    \A r \in Ranks :
        /\ gather_in[r].posted =>
              /\ Len(gather_in[r].obj) = n_odd[r]
              /\ \A k \in 1..n_odd[r] : gather_in[r].obj[k] = EpochRecords(r)[k]
        /\ pc[r] = "val" =>
              /\ lists_defined[r]
              /\ old_lists[r] = EmptyOldLists
              /\ n_odd[r] = 0 => saved_dict_list[r] = <<>>
        /\ LeftEpochEnd(r) => saved_dict_list[r] = <<>>

\* after a skipped epoch, a rank hands two records to the gather of an
\* evaluation epoch
C10_Witness ==
    \E r \in Ranks :
        /\ current_epoch = 1
        /\ caption_eval_epoch = 2
        /\ gather_in[r].posted
        /\ Len(gather_in[r].obj) = 2
        /\ LeftEpochEnd(r)

\* rank r has passed the gate of on_validation_epoch_end in this epoch
PassedGate(r) ==
    \/ pc[r] \in {"gather", "done"}
    \/ pc[r] = "raised" /\ exc[r] # "NameError"

\* all ranks agree on the gather: a rank past the gate has called
\* all_gather_object once on an evaluation epoch and not at all on a skipped
\* one, whatever it holds, so a rank waiting in the collective never waits for
\* a rank that has returned or raised without calling it
C11_SameDecision ==
    \A r \in Ranks :
        /\ n_gather[r] <= 1
        /\ gather_in[r].posted <=> n_gather[r] = 1
        /\ PassedGate(r) => (n_gather[r] = 1 <=> IsEvalEpoch)
        /\ pc[r] = "gather" =>
              \A q \in Ranks : pc[q] \in {"done", "raised"} => n_gather[q] = 1

\* C11: in every validation epoch either every rank calls all_gather_object
\* exactly once (evaluation epoch) or no rank calls it (skipped epoch),
\* whatever the number of records a rank holds; no rank waits in the collective
\* for a rank that returned early, and every rank that enters
\* on_validation_epoch_end eventually leaves it.
C11_GatherAgreement ==
    /\ []C11_SameDecision
    /\ (\E r \in Ranks : pc[r] = "gather") ~> (\A r \in Ranks : pc[r] \in {"done", "raised"})

\* ranks holding different numbers of records (two and none) have all left
\* the gather of an evaluation epoch
C11_Witness ==
    /\ IsEvalEpoch
    /\ \A r \in Ranks : LeftEpochEnd(r) /\ n_gather[r] = 1
    /\ Len(gather_in[0].obj) = 2
    /\ Len(gather_in[1].obj) = 0

\* C12: with enable_flash the attention implementation is the original one
\* while validation steps run (between on_validation_epoch_start and
\* on_validation_epoch_end) and is flash attention again once
\* on_validation_epoch_end has passed its first lines, in evaluation and in
\* skipped epochs alike; without enable_flash it is never switched.
C12_AttentionSwitch ==
    \A r \in Ranks :
        /\ (enable_flash /\ pc[r] = "val") => attn[r] = "original"
        /\ (enable_flash /\ pc[r] \in {"gather", "done"}) => attn[r] = "flash"
        /\ (enable_flash /\ pc[r] = "raised" /\ exc[r] # "NameError") => attn[r] = "flash"
        /\ (enable_flash /\ flash_imported /\ pc[r] = "idle") => attn[r] = "flash"
        /\ ~enable_flash => attn[r] = "original"

\* with enable_flash, a rank has ended a skipped epoch in which it ran a
\* validation step, and is back on flash attention
C12_Witness ==
    \E r \in Ranks :
        /\ enable_flash
        /\ ~IsEvalEpoch
        /\ pc[r] = "done"
        /\ n_odd[r] > 0
        /\ attn[r] = "flash"

====
